---- MODULE Spec2Model ----
(***************************************************************************)
(* Model of app.py, the Streamlit "Todo + Calendar" application: one flat  *)
(* collection of task records per browser session, mirrored wholesale to   *)
(* one JSON file (todo_data.json).                                         *)
(*                                                                         *)
(* Representation of values                                                *)
(*   - a Python str is a sequence of code points (32 = " ", 48 = "0",      *)
(*     66 = "B", 80 = "P", 97 = "a", 98 = "b", 110 = "n", ...), so "P0"    *)
(*     is <<80, 48>>;                                                      *)
(*   - a date text is abstracted to its numeric fields: YYYY-MM-DD is      *)
(*     <<y, m, d>>, YYYYMMDD is the one number <<yyyymmdd>>, and any       *)
(*     other sequence is text that is no date;                             *)
(*   - a datetime.date is its proleptic Gregorian ordinal (toordinal());   *)
(*   - a JSON value is a record [k, s, n, b] tagged by its kind k;         *)
(*   - the backing file is [k, items], k in "absent", "garbage", "array".  *)
(***************************************************************************)
EXTENDS Integers, Sequences, FiniteSets, TLC

VARIABLES
    file,     \* content of DATA_PATH (todo_data.json)
    now,      \* the wall clock's date, date.today(), as an ordinal
    py311,    \* whether the interpreter's date.fromisoformat reads YYYYMMDD
    uuid,     \* number of uuid4() values drawn so far
    tasks,    \* tasks[s]: st.session_state.tasks of session s
    loaded,   \* loaded[s]: "tasks" in st.session_state of session s
    pc,       \* pc[s]: position of session s in its script run
    event,    \* event[s]: "user" when a button, the form or a selector started
              \* the run, so one of them may read as fired; "rerun" when the
              \* run is a session's first or st.rerun() or a checkbox started it
    moved,    \* moved[s]: the count carry_over_unfinished last returned
    run_today,  \* run_today[s]: the run's today = date.today() (line 517), an
              \* ordinal; 0 before the session's first run reaches the line
    shown,    \* the task rows a view lists, in order (render_year, ...)
    last      \* history: the operation performed by the last step

vars ==
    <<file, now, py311, uuid, tasks, loaded, pc, event, moved, run_today,
      shown, last>>

(***************************************************************************)
(* Bounds of the model.                                                    *)
(***************************************************************************)
MaxTasks == 2       \* longest in-memory collection an add may extend
MaxUuid == 2        \* uuid4() values drawn in one behaviour
MaxTicks == 1       \* midnights that pass in one behaviour
MaxFnLen == 3       \* longest collection handed to a function on its own

Sessions == {1, 2}

(***************************************************************************)
(* Python strings: strip() and lower(), comparison by code point.          *)
(***************************************************************************)
RECURSIVE LStrip(_)
LStrip(s) ==
    IF s = <<>> THEN <<>>
    ELSE IF Head(s) = 32 THEN LStrip(Tail(s)) ELSE s

RECURSIVE RStrip(_)
RStrip(s) ==
    IF s = <<>> THEN <<>>
    ELSE IF s[Len(s)] = 32 THEN RStrip(SubSeq(s, 1, Len(s) - 1)) ELSE s

Strip(s) == RStrip(LStrip(s))

LowerChar(c) == IF c >= 65 /\ c <= 90 THEN c + 32 ELSE c

Lower(s) == [i \in 1..Len(s) |-> LowerChar(s[i])]

RECURSIVE StrLess(_, _)
StrLess(a, b) ==
    IF b = <<>> THEN FALSE
    ELSE IF a = <<>> THEN TRUE
    ELSE IF Head(a) # Head(b) THEN Head(a) < Head(b)
    ELSE StrLess(Tail(a), Tail(b))

UntitledTask == <<85, 110, 116, 105, 116, 108, 101, 100, 32, 116, 97, 115, 107>>

(***************************************************************************)
(* datetime.date: fromisoformat / toordinal / isoformat.                   *)
(***************************************************************************)
IsLeap(y) == (y % 4 = 0) /\ ((y % 100 # 0) \/ (y % 400 = 0))

DaysInMonth(y, m) ==
    IF m = 2 THEN (IF IsLeap(y) THEN 29 ELSE 28)
    ELSE IF m \in {4, 6, 9, 11} THEN 30 ELSE 31

DaysBeforeYear(y) ==
    (y - 1) * 365 + ((y - 1) \div 4) - ((y - 1) \div 100) + ((y - 1) \div 400)

\* days of a common year before the first of each month
DAYS_BEFORE_MONTH == <<0, 31, 59, 90, 120, 151, 181, 212, 243, 273, 304, 334>>

DaysBeforeMonth(y, m) ==
    DAYS_BEFORE_MONTH[m] + (IF m > 2 /\ IsLeap(y) THEN 1 ELSE 0)

ValidYMD(y, m, d) ==
    /\ y >= 1 /\ y <= 9999
    /\ m >= 1 /\ m <= 12
    /\ d >= 1 /\ d <= DaysInMonth(y, m)

ToOrdinal(y, m, d) == DaysBeforeYear(y) + DaysBeforeMonth(y, m) + d

YearRange == 2023..2025

\* date.isoformat(): the YYYY-MM-DD text of an ordinal
IsoFormat(n) ==
    LET y == CHOOSE yy \in YearRange :
                 DaysBeforeYear(yy) < n /\ n <= DaysBeforeYear(yy + 1)
        m == CHOOSE mm \in 1..12 :
                 /\ DaysBeforeMonth(y, mm) < n - DaysBeforeYear(y)
                 /\ n - DaysBeforeYear(y) <= DaysBeforeMonth(y, mm) + DaysInMonth(y, mm)
    IN  <<y, m, n - DaysBeforeYear(y) - DaysBeforeMonth(y, m)>>

\* the text YYYY-MM-DD, abstracted to its three numeric fields
DateStr(y, m, d) == <<y, m, d>>

\* the text YYYYMMDD (ISO 8601 basic format): one run of eight digits
BasicDateStr(y, m, d) == <<y * 10000 + m * 100 + d>>

(***************************************************************************)
(* JSON values as json.load returns them.                                  *)
(***************************************************************************)
Missing == [k |-> "missing", s |-> <<>>, n |-> 0, b |-> FALSE]

JNull == [k |-> "null", s |-> <<>>, n |-> 0, b |-> FALSE]

JBool(b) == [k |-> "bool", s |-> <<>>, n |-> 0, b |-> b]

JNum(n) == [k |-> "num", s |-> <<>>, n |-> n, b |-> FALSE]

JStr(s) == [k |-> "str", s |-> s, n |-> 0, b |-> FALSE]

\* bool(value), also the truth test of `not value` and of `value or default`
Truthy(v) ==
    CASE v.k = "missing" -> FALSE
      [] v.k = "null" -> FALSE
      [] v.k = "bool" -> v.b
      [] v.k = "num" -> v.n # 0
      [] v.k = "str" -> v.s # <<>>

\* str(value) for the kinds of value a title or a note can hold
PyStr(v) ==
    CASE v.k = "str" -> v.s
      [] v.k = "null" -> <<78, 111, 110, 101>>
      [] v.k = "bool" -> IF v.b THEN <<84, 114, 117, 101>>
                         ELSE <<70, 97, 108, 115, 101>>
      [] v.k = "num" -> <<48 + v.n>>
      [] v.k = "missing" -> <<>>

\* item.get(key, default)
Get(v, default) == IF v.k = "missing" THEN default ELSE v

(***************************************************************************)
(* Task records and the module's constants.                                *)
(***************************************************************************)
\* the label "P<i>"
P(i) == <<80, 48 + i>>

PRIORITY_ORDER == [p \in {P(0), P(1), P(2), P(3)} |-> p[2] - 48]

PRIORITY_LABELS == DOMAIN PRIORITY_ORDER

\* str(uuid4()): the n-th value drawn, "u<n>", unlike any drawn before
Uuid4(n) == <<117, n>>

Task(id, title, dt, priority, notes, done) ==
    [id |-> id, title |-> title, date |-> dt, priority |-> priority,
     notes |-> notes, done |-> done]

\* date.fromisoformat(s): [ok |-> FALSE] stands for ValueError
FromIsoFormat(s, v311) ==
    IF Len(s) = 3 /\ ValidYMD(s[1], s[2], s[3])
    THEN [ok |-> TRUE, date |-> ToOrdinal(s[1], s[2], s[3])]
    ELSE IF /\ v311
            /\ Len(s) = 1
            /\ ValidYMD(s[1] \div 10000, (s[1] \div 100) % 100, s[1] % 100)
    THEN [ok |-> TRUE,
          date |-> ToOrdinal(s[1] \div 10000, (s[1] \div 100) % 100, s[1] % 100)]
    ELSE [ok |-> FALSE, date |-> 0]

\* iso_to_date(value); raised stands for the TypeError that
\* date.fromisoformat raises on an argument that is no str
iso_to_date(value, today, v311) ==
    IF ~Truthy(value) THEN [raised |-> FALSE, date |-> today]
    ELSE IF value.k # "str" THEN [raised |-> TRUE, date |-> 0]
    ELSE LET r == FromIsoFormat(value.s, v311)
         IN  IF r.ok THEN [raised |-> FALSE, date |-> r.date]
             ELSE [raised |-> FALSE, date |-> today]

\* iso_to_date of a task's own date text
TaskDate(t, today, v311) == iso_to_date(JStr(t.date), today, v311).date

(***************************************************************************)
(* The backing file.                                                       *)
(***************************************************************************)
Absent == [k |-> "absent", items |-> <<>>]

Garbage == [k |-> "garbage", items |-> <<>>]

Array(items) == [k |-> "array", items |-> items]

\* a JSON object of the array, by the values of the six keys
Obj(id, title, dt, priority, notes, done) ==
    [obj |-> TRUE, id |-> id, title |-> title, date |-> dt,
     priority |-> priority, notes |-> notes, done |-> done]

\* an element of the array that is no object (a number, a string, ...)
NonObj ==
    [obj |-> FALSE, id |-> Missing, title |-> Missing, date |-> Missing,
     priority |-> Missing, notes |-> Missing, done |-> Missing]

\* the dict load_tasks builds from one item
Normalize(item, today, v311, u) ==
    LET d == iso_to_date(Get(item.date, JStr(IsoFormat(today))), today, v311)
        pr == Get(item.priority, JStr(P(2)))
        title == Strip(PyStr(Get(item.title, JStr(<<>>))))
    IN  [raised |-> d.raised,
         uuid |-> IF Truthy(item.id) THEN u ELSE u + 1,
         task |-> Task(IF Truthy(item.id) THEN item.id.s ELSE Uuid4(u + 1),
                       IF title = <<>> THEN UntitledTask ELSE title,
                       IF d.raised THEN <<>> ELSE IsoFormat(d.date),
                       IF pr.k = "str" /\ pr.s \in PRIORITY_LABELS
                           THEN pr.s ELSE P(2),
                       Strip(PyStr(Get(item.notes, JStr(<<>>)))),
                       Truthy(Get(item.done, JBool(FALSE))))]

RECURSIVE LoadItems(_, _, _, _, _)
LoadItems(items, acc, today, v311, u) ==
    IF items = <<>> THEN [raised |-> FALSE, tasks |-> acc, uuid |-> u]
    ELSE IF ~Head(items).obj
    THEN LoadItems(Tail(items), acc, today, v311, u)
    ELSE LET r == Normalize(Head(items), today, v311, u)
         IN  IF r.raised THEN [raised |-> TRUE, tasks |-> <<>>, uuid |-> r.uuid]
             ELSE LoadItems(Tail(items), Append(acc, r.task), today, v311, r.uuid)

\* load_tasks(): raised stands for an exception leaving the function
load_tasks(f, today, v311, u) ==
    IF f.k = "absent" THEN [raised |-> FALSE, tasks |-> <<>>, uuid |-> u]
    ELSE IF f.k = "garbage" THEN [raised |-> FALSE, tasks |-> <<>>, uuid |-> u]
    ELSE LoadItems(f.items, <<>>, today, v311, u)

\* a dump that leaves the notes out of the object
DumpWithoutNotes(t) ==
    Obj(JStr(t.id), JStr(t.title), JStr(t.date), JStr(t.priority),
        Missing, JBool(t.done))

\* a save that keeps the objects of the file whose ids the session lacks
save_tasks_merging(ts) ==
    Array([i \in 1..Len(ts) |->
               Obj(JStr(ts[i].id), JStr(ts[i].title), JStr(ts[i].date),
                   JStr(ts[i].priority), JStr(ts[i].notes), JBool(ts[i].done))]
          \o SelectSeq(file.items,
                       LAMBDA o : \A i \in 1..Len(ts) : o.id.s # ts[i].id))

\* json.dump of one task dict
Dump(t) ==
    Obj(JStr(t.id), JStr(t.title), JStr(t.date), JStr(t.priority),
        JStr(t.notes), JBool(t.done))

\* save_tasks(tasks): the content of the file afterwards
save_tasks(ts) == Array([i \in 1..Len(ts) |-> Dump(ts[i])])

(***************************************************************************)
(* Rollover and sorting.                                                   *)
(***************************************************************************)
\* the loop with <= for < at line 75: tasks due today count as moved
RECURSIVE CarryLoopLE(_, _, _)
CarryLoopLE(ts, today, v311) ==
    IF ts = <<>> THEN [tasks |-> <<>>, moved |-> 0]
    ELSE LET t == Head(ts)
             rest == CarryLoopLE(Tail(ts), today, v311)
         IN  IF t.done THEN [tasks |-> <<t>> \o rest.tasks, moved |-> rest.moved]
             ELSE IF iso_to_date(JStr(t.date), today, v311).date <= today
             THEN [tasks |-> <<[t EXCEPT !.date = IsoFormat(today)]>> \o rest.tasks,
                   moved |-> rest.moved + 1]
             ELSE [tasks |-> <<t>> \o rest.tasks, moved |-> rest.moved]

\* the loop of carry_over_unfinished over the tasks
RECURSIVE CarryLoop(_, _, _)
CarryLoop(ts, today, v311) ==
    IF ts = <<>> THEN [tasks |-> <<>>, moved |-> 0]
    ELSE LET t == Head(ts)
             rest == CarryLoop(Tail(ts), today, v311)
         IN  IF t.done THEN [tasks |-> <<t>> \o rest.tasks, moved |-> rest.moved]
             ELSE IF TaskDate(t, today, v311) < today
             THEN [tasks |-> <<[t EXCEPT !.date = IsoFormat(today)]>> \o rest.tasks,
                   moved |-> rest.moved + 1]
             ELSE [tasks |-> <<t>> \o rest.tasks, moved |-> rest.moved]

\* a rollover that moves the dates and forgets the save of lines 78-79
carry_over_unfinished_unsaved(ts, today, v311, f) ==
    LET r == CarryLoop(ts, today, v311)
    IN  [tasks |-> r.tasks, moved |-> r.moved, file |-> f]

\* carry_over_unfinished(tasks, today), with the file f it may rewrite
carry_over_unfinished(ts, today, v311, f) ==
    LET r == CarryLoop(ts, today, v311)
    IN  [tasks |-> r.tasks, moved |-> r.moved,
         file |-> IF r.moved # 0 THEN save_tasks(r.tasks) ELSE f]

\* PRIORITY_ORDER.get(priority, 99)
Rank(p) == IF p \in DOMAIN PRIORITY_ORDER THEN PRIORITY_ORDER[p] ELSE 99

\* the key without .lower(): titles compared case-sensitively
SortKeyLessCaseSensitive(a, b, today, v311) ==
    LET da == iso_to_date(JStr(a.date), today, v311).date
        db == iso_to_date(JStr(b.date), today, v311).date
    IN  \/ da < db
        \/ da = db /\ Rank(a.priority) < Rank(b.priority)
        \/ /\ da = db /\ Rank(a.priority) = Rank(b.priority)
           /\ StrLess(a.title, b.title)

\* the key of sort_tasks, compared as Python compares tuples
SortKeyLess(a, b, today, v311) ==
    LET da == TaskDate(a, today, v311)
        db == TaskDate(b, today, v311)
    IN  \/ da < db
        \/ da = db /\ Rank(a.priority) < Rank(b.priority)
        \/ /\ da = db /\ Rank(a.priority) = Rank(b.priority)
           /\ StrLess(Lower(a.title), Lower(b.title))

\* the key of the day sections of the views
DayKeyLess(a, b) ==
    \/ Rank(a.priority) < Rank(b.priority)
    \/ /\ Rank(a.priority) = Rank(b.priority)
       /\ StrLess(Lower(a.title), Lower(b.title))

\* sorted() is stable: x goes before the first element whose key is
\* greater, behind every element whose key is equal
RECURSIVE InsertByKey(_, _, _, _)
InsertByKey(x, acc, today, v311) ==
    IF acc = <<>> THEN <<x>>
    ELSE IF SortKeyLess(x, Head(acc), today, v311) THEN <<x>> \o acc
    ELSE <<Head(acc)>> \o InsertByKey(x, Tail(acc), today, v311)

\* line 522 without its effect: the collection stays as it was
sort_tasks_unsorted(ts, today, v311) == ts

RECURSIVE sort_tasks(_, _, _)
sort_tasks(ts, today, v311) ==
    IF ts = <<>> THEN <<>>
    ELSE InsertByKey(ts[Len(ts)],
                     sort_tasks(SubSeq(ts, 1, Len(ts) - 1), today, v311),
                     today, v311)

RECURSIVE InsertByDayKey(_, _)
InsertByDayKey(x, acc) ==
    IF acc = <<>> THEN <<x>>
    ELSE IF DayKeyLess(x, Head(acc)) THEN <<x>> \o acc
    ELSE <<Head(acc)>> \o InsertByDayKey(x, Tail(acc))

\* sorted(by_day[day], key=...) of render_year, render_month, render_day
RECURSIVE SortDay(_)
SortDay(ts) ==
    IF ts = <<>> THEN <<>>
    ELSE InsertByDayKey(ts[Len(ts)], SortDay(SubSeq(ts, 1, Len(ts) - 1)))

(***************************************************************************)
(* The views: the task rows a render lists, in order.                      *)
(***************************************************************************)
YearOf(n) == IsoFormat(n)[1]

MonthOf(n) == IsoFormat(n)[2]

\* [t for t in tasks if keep(t)], for the tasks due on one of `days`
OnDays(ts, days, today, v311) ==
    SelectSeq(ts, LAMBDA t : TaskDate(t, today, v311) \in days)

\* render_task_row: a completed task is skipped unless show_done
Rows(ts, show_done) == SelectSeq(ts, LAMBDA t : show_done \/ ~t.done)

\* for day in sorted(by_day): the rows of each day, sorted by the day key
RECURSIVE RenderDays(_, _, _, _, _)
RenderDays(ts, days, show_done, today, v311) ==
    IF days = {} THEN <<>>
    ELSE LET day == CHOOSE d \in days : \A e \in days : d <= e
         IN  Rows(SortDay(OnDays(ts, {day}, today, v311)), show_done)
             \o RenderDays(ts, days \ {day}, show_done, today, v311)

DueDays(ts, today, v311) == {TaskDate(ts[i], today, v311) : i \in 1..Len(ts)}

render_year(ts, year, show_done, today, v311) ==
    RenderDays(ts, {d \in DueDays(ts, today, v311) : YearOf(d) = year},
               show_done, today, v311)

render_month(ts, year, month, show_done, today, v311) ==
    RenderDays(ts, {d \in DueDays(ts, today, v311) :
                       YearOf(d) = year /\ MonthOf(d) = month},
               show_done, today, v311)

render_day(ts, selected_day, show_done, today, v311) ==
    SortDay(SelectSeq(ts, LAMBDA t : /\ TaskDate(t, today, v311) = selected_day
                                     /\ (show_done \/ ~t.done)))

(***************************************************************************)
(* The mutations of the session's collection.                              *)
(***************************************************************************)
\* toggle_done(task_id): the first task with that id takes the checkbox's value
RECURSIVE SetDone(_, _, _)
SetDone(ts, task_id, value) ==
    IF ts = <<>> THEN <<>>
    ELSE IF Head(ts).id = task_id
    THEN <<[Head(ts) EXCEPT !.done = value]>> \o Tail(ts)
    ELSE <<Head(ts)>> \o SetDone(Tail(ts), task_id, value)

toggle_done(ts, task_id, value) ==
    LET new == SetDone(ts, task_id, value)
    IN  [tasks |-> new, file |-> save_tasks(new)]

delete_task(ts, task_id) ==
    LET new == SelectSeq(ts, LAMBDA t : t.id # task_id)
    IN  [tasks |-> new, file |-> save_tasks(new)]

\* the "Clear completed tasks" button
clear_completed(ts) ==
    LET new == SelectSeq(ts, LAMBDA t : ~t.done)
    IN  [tasks |-> new, file |-> save_tasks(new)]

\* the add-task form, submitted with a title that is not blank
add_task(ts, u, title, due, priority, notes) ==
    LET new == Append(ts, Task(Uuid4(u + 1), Strip(title), IsoFormat(due),
                               priority, Strip(notes), FALSE))
    IN  [tasks |-> new, file |-> save_tasks(new)]

(***************************************************************************)
(* The sessions.  Every widget interaction reruns the script from the top: *)
(* initial load (line 499), rollover (518), sort (522), then the handler   *)
(* of the widget that fired, then the views.  pc[s] is the place reached:  *)
(*   "start"   top of the script                                           *)
(*   "widgets" line 524, before the sidebar handlers and the views         *)
(*   "idle"    page rendered, waiting   "failed" the run raised            *)
(* Which widget fired is read where the script reaches the widget.         *)
(***************************************************************************)
StartDay == ToOrdinal(2024, 2, 29)

\* what the user can enter in the add-task form
AddTitles == {<<>>, <<32>>, <<97>>, <<32, 66>>}

AddDates == {ToOrdinal(2024, 2, 20), ToOrdinal(2024, 3, 1)}

AddPriorities == {P(2)}

AddNotes == {<<110, 32>>}

\* contents the file can have when a session starts
WellFormedA ==
    Obj(JStr(<<97>>), JStr(<<98>>), JStr(DateStr(2024, 2, 20)), JStr(P(1)),
        JStr(<<>>), JBool(FALSE))

WellFormedB ==
    Obj(JStr(<<98>>), JStr(<<66>>), JStr(DateStr(2024, 2, 20)), JStr(P(0)),
        JStr(<<110>>), JBool(TRUE))

SameIdAsA ==
    Obj(JStr(<<97>>), JStr(<<97>>), JStr(DateStr(2024, 3, 1)), JStr(P(3)),
        JStr(<<>>), JBool(FALSE))

\* no id, blank title, text that is no date, unknown priority, done "x"
Sloppy ==
    Obj(Missing, JStr(<<32>>), JStr(<<120>>), JStr(<<112, 48>>), JNull,
        JStr(<<120>>))

\* "date": 5
NumberDate ==
    Obj(JStr(<<97>>), JStr(<<97>>), JNum(5), JStr(P(1)), JStr(<<>>),
        JBool(FALSE))

InitFiles ==
    {Absent, Garbage, Array(<<WellFormedA>>),
     Array(<<WellFormedA, WellFormedB>>), Array(<<WellFormedA, SameIdAsA>>),
     Array(<<NonObj, Sloppy>>), Array(<<NumberDate>>)}

NoOp == [s |-> 0, op |-> "none", id |-> <<>>, arg |-> <<>>]

Did(s, op, id) == [s |-> s, op |-> op, id |-> id, arg |-> <<>>]

Ids(ts) == {ts[i].id : i \in 1..Len(ts)}

Init ==
    /\ file \in InitFiles
    /\ now = StartDay
    /\ py311 = TRUE
    /\ uuid = 0
    /\ tasks = [s \in Sessions |-> <<>>]
    /\ loaded = [s \in Sessions |-> FALSE]
    /\ pc = [s \in Sessions |-> "start"]
    /\ event = [s \in Sessions |-> "rerun"]
    /\ moved = [s \in Sessions |-> 0]
    /\ run_today = [s \in Sessions |-> 0]
    /\ shown = <<>>
    /\ last = NoOp

\* midnight passes
Tick ==
    /\ now < StartDay + MaxTicks
    /\ now' = now + 1
    /\ last' = Did(0, "tick", <<>>)
    /\ UNCHANGED <<file, py311, uuid, tasks, loaded, pc, event, moved, shown,
                 run_today>>

\* lines 499-500: if "tasks" not in st.session_state
InitialLoad(s) ==
    /\ pc[s] = "start" /\ ~loaded[s]
    /\ LET r == load_tasks(file, now, py311, uuid)
       IN  /\ r.uuid <= MaxUuid
           /\ IF r.raised
              THEN /\ pc' = [pc EXCEPT ![s] = "failed"]
                   /\ last' = Did(s, "raise", <<>>)
                   /\ UNCHANGED <<tasks, loaded, uuid>>
              ELSE /\ tasks' = [tasks EXCEPT ![s] = r.tasks]
                   /\ loaded' = [loaded EXCEPT ![s] = TRUE]
                   /\ uuid' = r.uuid
                   /\ last' = Did(s, "load", <<>>)
                   /\ UNCHANGED pc
    /\ UNCHANGED <<file, now, py311, event, moved, shown,
                 run_today>>

\* a head that carries over only in the run that follows the initial load
ScriptTopRolloverAtLoadOnly(s) ==
    /\ pc[s] = "start" /\ loaded[s]
    /\ LET r == IF last.op = "load"
                THEN carry_over_unfinished(tasks[s], now, py311, file)
                ELSE [tasks |-> tasks[s], moved |-> 0, file |-> file]
       IN  /\ tasks' = [tasks EXCEPT ![s] = sort_tasks(r.tasks, now, py311)]
           /\ moved' = [moved EXCEPT ![s] = r.moved]
           /\ file' = r.file
    /\ run_today' = [run_today EXCEPT ![s] = now]
    /\ pc' = [pc EXCEPT ![s] = "widgets"]
    /\ last' = Did(s, "rollover", <<>>)
    /\ UNCHANGED <<now, py311, uuid, loaded, event, shown>>

\* lines 517-522: the head of every run,
\*   moved = carry_over_unfinished(st.session_state.tasks, today)
\*   st.session_state.tasks = sort_tasks(st.session_state.tasks)
ScriptTop(s) ==
    /\ pc[s] = "start" /\ loaded[s]
    /\ LET r == carry_over_unfinished(tasks[s], now, py311, file)
       IN  /\ tasks' = [tasks EXCEPT ![s] = sort_tasks(r.tasks, now, py311)]
           /\ moved' = [moved EXCEPT ![s] = r.moved]
           /\ file' = r.file
    /\ run_today' = [run_today EXCEPT ![s] = now]
    /\ pc' = [pc EXCEPT ![s] = "widgets"]
    /\ last' = Did(s, "rollover", <<>>)
    /\ UNCHANGED <<now, py311, uuid, loaded, event, shown>>

\* lines 556-559: the reload button
Reload(s) ==
    /\ pc[s] = "widgets" /\ event[s] = "user"
    /\ LET r == load_tasks(file, now, py311, uuid)
       IN  /\ r.uuid <= MaxUuid
           /\ IF r.raised
              THEN /\ pc' = [pc EXCEPT ![s] = "failed"]
                   /\ last' = Did(s, "raise", <<>>)
                   /\ UNCHANGED <<tasks, uuid>>
              ELSE /\ tasks' = [tasks EXCEPT ![s] = r.tasks]
                   /\ uuid' = r.uuid
                   /\ pc' = [pc EXCEPT ![s] = "start"]
                   /\ last' = Did(s, "reload", <<>>)
    /\ event' = [event EXCEPT ![s] = "rerun"]
    /\ UNCHANGED <<file, now, py311, loaded, moved, shown,
                 run_today>>

\* lines 560-564: the clear-completed button
ClearCompleted(s) ==
    /\ pc[s] = "widgets" /\ event[s] = "user"
    /\ LET r == clear_completed(tasks[s])
       IN  /\ tasks' = [tasks EXCEPT ![s] = r.tasks]
           /\ file' = r.file
    /\ pc' = [pc EXCEPT ![s] = "start"]
    /\ event' = [event EXCEPT ![s] = "rerun"]
    /\ last' = Did(s, "clear", <<>>)
    /\ UNCHANGED <<now, py311, uuid, loaded, moved, shown,
                 run_today>>

\* lines 575-588: if add and title.strip()
AddTask(s, titles, dues) ==
    /\ pc[s] = "widgets" /\ event[s] = "user"
    /\ Len(tasks[s]) < MaxTasks /\ uuid < MaxUuid
    /\ \E title \in titles, due \in dues,
          priority \in AddPriorities, notes \in AddNotes :
          /\ Strip(title) # <<>>
          /\ LET r == add_task(tasks[s], uuid, title, due, priority, notes)
             IN  /\ tasks' = [tasks EXCEPT ![s] = r.tasks]
                 /\ file' = r.file
    /\ uuid' = uuid + 1
    /\ pc' = [pc EXCEPT ![s] = "start"]
    /\ event' = [event EXCEPT ![s] = "rerun"]
    /\ last' = Did(s, "add", Uuid4(uuid + 1))
    /\ UNCHANGED <<now, py311, loaded, moved, shown,
                 run_today>>

\* lines 174-181: the delete button of a rendered task row
DeleteTask(s) ==
    /\ pc[s] = "widgets" /\ event[s] = "user"
    /\ \E task_id \in Ids(tasks[s]) :
          /\ LET r == delete_task(tasks[s], task_id)
             IN  /\ tasks' = [tasks EXCEPT ![s] = r.tasks]
                 /\ file' = r.file
          /\ last' = Did(s, "delete", task_id)
    /\ pc' = [pc EXCEPT ![s] = "start"]
    /\ event' = [event EXCEPT ![s] = "rerun"]
    /\ UNCHANGED <<now, py311, uuid, loaded, moved, shown,
                 run_today>>

\* lines 590-629: no handler reran the script (no button fired, or the form
\* was submitted with a blank title: line 575 is false); the page is
\* rendered from st.session_state.tasks, which rendering leaves alone
Render(s) ==
    /\ pc[s] = "widgets"
    /\ pc' = [pc EXCEPT ![s] = "idle"]
    /\ last' = Did(s, "render", <<>>)
    /\ UNCHANGED <<file, now, py311, uuid, tasks, loaded, event, moved, shown,
                 run_today>>

\* lines 150-157: a checkbox changes; its callback runs before the script
Toggle(s) ==
    /\ pc[s] = "idle"
    /\ \E task_id \in Ids(tasks[s]), value \in BOOLEAN :
          /\ LET r == toggle_done(tasks[s], task_id, value)
             IN  /\ tasks' = [tasks EXCEPT ![s] = r.tasks]
                 /\ file' = r.file
          /\ last' = Did(s, "toggle", task_id)
    /\ pc' = [pc EXCEPT ![s] = "start"]
    /\ event' = [event EXCEPT ![s] = "rerun"]
    /\ UNCHANGED <<now, py311, uuid, loaded, moved, shown,
                 run_today>>

\* the user presses a button, submits the form or changes a selector
Interact(s) ==
    /\ pc[s] \in {"idle", "failed"}
    /\ event' = [event EXCEPT ![s] = "user"]
    /\ pc' = [pc EXCEPT ![s] = "start"]
    /\ last' = Did(s, "interact", <<>>)
    /\ UNCHANGED <<file, now, py311, uuid, tasks, loaded, moved, shown,
                 run_today>>

SessionNext(s, titles, dues) ==
    \/ InitialLoad(s)
    \/ ScriptTop(s)
    \/ Reload(s)
    \/ ClearCompleted(s)
    \/ AddTask(s, titles, dues)
    \/ DeleteTask(s)
    \/ Render(s)
    \/ Toggle(s)
    \/ Interact(s)

\* one session, no other writer of the file
Next == Tick \/ SessionNext(1, AddTitles, AddDates)

Spec == Init /\ [][Next]_vars

\* two sessions (two browser tabs) on the one file, within one day
InitShared == Init /\ file = Absent

NextShared ==
    \E s \in Sessions : SessionNext(s, {<<>>, <<97>>}, {ToOrdinal(2024, 2, 20)})

SpecShared == InitShared /\ [][NextShared]_vars

(***************************************************************************)
(* The functions on their own: carry_over_unfinished, sort_tasks and the   *)
(* views, save_tasks followed by load_tasks, and load_tasks on any file.   *)
(* Session 1 holds the argument; last.arg keeps it for comparison.         *)
(***************************************************************************)
SeqsUpTo(S, n) == UNION {[1..k -> S] : k \in 0..n}

\* the same tasks, the i-th with the id "i<i>"
WithIds(ts) == [i \in 1..Len(ts) |-> [ts[i] EXCEPT !.id = <<105, i>>]]

CarryTasks ==
    {Task(<<>>, <<97>>, dt, P(2), <<>>, done) :
        dt \in {DateStr(2024, 2, 20), DateStr(2024, 2, 29), DateStr(2024, 3, 1)},
        done \in BOOLEAN}

SortTasks ==
    {Task(<<>>, title, dt, priority, <<>>, FALSE) :
        title \in {<<97>>, <<98>>, <<66>>},
        dt \in {DateStr(2024, 2, 29), DateStr(2024, 3, 1)},
        priority \in {P(0), P(2)}}
    \cup {Task(<<>>, <<97>>, DateStr(2024, 2, 29), P(0), <<>>, TRUE)}

\* well-formed tasks: an id, a title that is not empty, an ISO 8601 date,
\* a priority label, a notes string, a boolean
StoreTasks ==
    {Task(<<>>, title, dt, P(1), notes, done) :
        title \in {<<97>>, <<32, 97>>, <<32>>},
        dt \in {DateStr(2024, 2, 20), BasicDateStr(2024, 2, 20)},
        notes \in {<<>>, <<110>>, <<110, 32>>},
        done \in BOOLEAN}

RawItems ==
    {Obj(id, title, dt, priority, notes, done) :
        id \in {Missing, JStr(<<>>), JStr(<<97>>)},
        title \in {Missing, JNull, JStr(<<32, 97>>)},
        dt \in {Missing, JNull, JStr(<<>>), JStr(<<120>>),
                JStr(DateStr(2024, 2, 20)), JStr(DateStr(2024, 2, 30)),
                JStr(BasicDateStr(2024, 2, 20)), JNum(0), JNum(5), JBool(TRUE)},
        priority \in {Missing, JNull, JNum(1), JStr(<<112, 48>>), JStr(P(1))},
        notes \in {Missing, JStr(<<32, 110>>)},
        done \in {Missing, JNum(0), JStr(<<120>>), JBool(TRUE)}}

RawFiles ==
    {Absent, Garbage}
    \cup {Array(<<item>>) : item \in RawItems}
    \cup {Array(items) :
            items \in SeqsUpTo({NonObj, Sloppy, WellFormedA, NumberDate},
                               MaxFnLen)}

Arg(op, arg) == [s |-> 1, op |-> op, id |-> <<>>, arg |-> arg]

CarryInputs == {WithIds(ts) : ts \in SeqsUpTo(CarryTasks, MaxFnLen)}

SortInputs == {WithIds(ts) : ts \in SeqsUpTo(SortTasks, MaxFnLen)}

StoreInputs == {WithIds(ts) : ts \in SeqsUpTo(StoreTasks, MaxFnLen - 1)}

FnState(f, ts, fl, v311) ==
    /\ pc = [s \in Sessions |-> IF s = 1 THEN f ELSE "idle"]
    /\ tasks = [s \in Sessions |-> IF s = 1 THEN ts ELSE <<>>]
    /\ file = fl
    /\ py311 = v311

InitFn ==
    /\ now = StartDay
    /\ uuid = 0
    /\ loaded = [s \in Sessions |-> TRUE]
    /\ event = [s \in Sessions |-> "user"]
    /\ moved = [s \in Sessions |-> 0]
    /\ run_today = [s \in Sessions |-> 0]
    /\ shown = <<>>
    /\ last = NoOp
    /\ \/ \E ts \in CarryInputs, fl \in {Absent, Array(<<WellFormedA>>)} :
             FnState("fn_carry", ts, fl, TRUE)
       \/ \E ts \in SortInputs : FnState("fn_sort", ts, Absent, TRUE)
       \/ \E ts \in StoreInputs, v311 \in BOOLEAN :
             FnState("fn_save", ts, Absent, v311)
       \/ \E fl \in RawFiles, v311 \in BOOLEAN :
             FnState("fn_load", <<>>, fl, v311)

\* carry_over_unfinished(tasks, today)
FnCarry ==
    /\ pc[1] = "fn_carry"
    /\ LET r == carry_over_unfinished(tasks[1], now, py311, file)
       IN  /\ tasks' = [tasks EXCEPT ![1] = r.tasks]
           /\ moved' = [moved EXCEPT ![1] = r.moved]
           /\ file' = r.file
    /\ pc' = [pc EXCEPT ![1] = "fn_done"]
    /\ last' = Arg("carry", tasks[1])
    /\ UNCHANGED <<now, py311, uuid, loaded, event, shown,
                 run_today>>

\* sort_tasks(tasks)
FnSort ==
    /\ pc[1] = "fn_sort"
    /\ tasks' = [tasks EXCEPT ![1] = sort_tasks(tasks[1], now, py311)]
    /\ pc' = [pc EXCEPT ![1] = "fn_view"]
    /\ last' = Arg("sort", tasks[1])
    /\ UNCHANGED <<file, now, py311, uuid, loaded, event, moved, shown,
                 run_today>>

\* render_year, render_month or render_day on the sorted tasks
FnView ==
    /\ pc[1] = "fn_view"
    /\ \E view \in {"Year", "Month", "Day"}, show_done \in BOOLEAN :
          /\ shown' =
                CASE view = "Year" ->
                         render_year(tasks[1], YearOf(now), show_done, now, py311)
                  [] view = "Month" ->
                         render_month(tasks[1], YearOf(now), MonthOf(now),
                                      show_done, now, py311)
                  [] view = "Day" ->
                         render_day(tasks[1], now, show_done, now, py311)
          /\ last' = [last EXCEPT !.op = view, !.id = <<IF show_done THEN 1 ELSE 0>>]
    /\ pc' = [pc EXCEPT ![1] = "fn_done"]
    /\ UNCHANGED <<file, now, py311, uuid, tasks, loaded, event, moved,
                 run_today>>

\* save_tasks(tasks)
FnSave ==
    /\ pc[1] = "fn_save"
    /\ file' = save_tasks(tasks[1])
    /\ pc' = [pc EXCEPT ![1] = "fn_load"]
    /\ last' = Arg("save", tasks[1])
    /\ UNCHANGED <<now, py311, uuid, tasks, loaded, event, moved, shown,
                 run_today>>

\* load_tasks()
FnLoad ==
    /\ pc[1] = "fn_load"
    /\ LET r == load_tasks(file, now, py311, uuid)
       IN  IF r.raised
           THEN /\ pc' = [pc EXCEPT ![1] = "fn_raised"]
                /\ UNCHANGED <<tasks, uuid>>
           ELSE /\ pc' = [pc EXCEPT ![1] = "fn_done"]
                /\ tasks' = [tasks EXCEPT ![1] = r.tasks]
                /\ uuid' = r.uuid
    /\ last' = [last EXCEPT !.op = "load"]
    /\ UNCHANGED <<file, now, py311, loaded, event, moved, shown,
                 run_today>>

NextFn == FnCarry \/ FnSort \/ FnView \/ FnSave \/ FnLoad

SpecFn == InitFn /\ [][NextFn]_vars

(***************************************************************************)
(* Vocabulary of the properties.  It is stated on the values themselves    *)
(* (date texts compared field by field, labels by their digit), not with   *)
(* the operators that model the code.                                      *)
(***************************************************************************)
Count(seq, x) == Cardinality({i \in 1..Len(seq) : seq[i] = x})

\* the JSON object that holds exactly the six values of task t
AsObject(t) ==
    [obj |-> TRUE,
     id |-> [k |-> "str", s |-> t.id, n |-> 0, b |-> FALSE],
     title |-> [k |-> "str", s |-> t.title, n |-> 0, b |-> FALSE],
     date |-> [k |-> "str", s |-> t.date, n |-> 0, b |-> FALSE],
     priority |-> [k |-> "str", s |-> t.priority, n |-> 0, b |-> FALSE],
     notes |-> [k |-> "str", s |-> t.notes, n |-> 0, b |-> FALSE],
     done |-> [k |-> "bool", s |-> <<>>, n |-> 0, b |-> t.done]]

AsObjects(ts) == [i \in 1..Len(ts) |-> AsObject(ts[i])]

\* the file is an array holding exactly the tasks ts, in any order
FileHolds(f, ts) ==
    /\ f.k = "array"
    /\ Len(f.items) = Len(ts)
    /\ \A i \in 1..Len(ts) :
          Count(f.items, AsObject(ts[i])) = Count(AsObjects(ts), AsObject(ts[i]))

\* the file is an array holding exactly the tasks ts, in the order of ts
FileLists(f, ts) == f.k = "array" /\ f.items = AsObjects(ts)

FileIds(f) == {f.items[i].id.s : i \in 1..Len(f.items)}

\* the two collections hold the same tasks, in any order
SameTasks(a, b) ==
    /\ Len(a) = Len(b)
    /\ \A i \in 1..Len(a) : Count(a, a[i]) = Count(b, a[i])

\* date text a is an earlier day than date text b (both YYYY-MM-DD)
Earlier(a, b) ==
    \/ a[1] < b[1]
    \/ a[1] = b[1] /\ a[2] < b[2]
    \/ a[1] = b[1] /\ a[2] = b[2] /\ a[3] < b[3]

\* the text is YYYY-MM-DD and names a day of the calendar
IsCalendarDate(d) ==
    /\ Len(d) = 3
    /\ d[1] \in 1..9999 /\ d[2] \in 1..12 /\ d[3] >= 1
    /\ d[3] <= CASE d[2] \in {4, 6, 9, 11} -> 30
                 [] d[2] = 2 /\ d[1] % 4 = 0 /\ (d[1] % 100 # 0 \/ d[1] % 400 = 0) -> 29
                 [] d[2] = 2 -> 28
                 [] OTHER -> 31

\* the last step was a mutation by session s that has to flush
Flushed(s) ==
    /\ last.s = s
    /\ \/ last.op \in {"add", "toggle", "delete", "clear"}
       \/ last.op = "rollover" /\ moved[s] > 0

\* ts without its i-th element
RemoveAt(ts, i) == SubSeq(ts, 1, i - 1) \o SubSeq(ts, i + 1, Len(ts))

(***************************************************************************)
(* C1: immediately after add-task, toggle-done, delete-task (and the       *)
(* clear button) and after a rollover that moved at least one task, the    *)
(* backing file holds exactly the tasks of the session's collection, with  *)
(* the same id, title, date, priority, notes and done values.              *)
(***************************************************************************)
C1_FlushAfterMutation == \A s \in Sessions : Flushed(s) => FileHolds(file, tasks[s])

\* a rollover moved a task and saved; the sort that follows reordered the
\* collection, and the file still holds the same tasks
C1_Witness ==
    /\ last.op = "rollover" /\ moved[1] > 0
    /\ Len(tasks[1]) = 2
    /\ ~FileLists(file, tasks[1])
    /\ FileHolds(file, tasks[1])

(***************************************************************************)
(* C2: in every reachable state no two tasks of a session's collection     *)
(* have the same id, whatever the backing file held at the start.          *)
(***************************************************************************)
C2_UniqueIds ==
    \A s \in Sessions : \A i, j \in 1..Len(tasks[s]) :
        i # j => tasks[s][i].id # tasks[s][j].id

(***************************************************************************)
(* C3: carry_over_unfinished(tasks, today) sets date to today for exactly  *)
(* the tasks with done = FALSE and date < today, leaves every other task   *)
(* and every other field as it was, returns the number of tasks whose date *)
(* it changed, and writes the file if and only if that number is not zero. *)
(***************************************************************************)
RolloverContract(old, new, count, f, g, today) ==
    /\ Len(new) = Len(old)
    /\ \A i \in 1..Len(old) :
          IF ~old[i].done /\ Earlier(old[i].date, today)
          THEN new[i] = [old[i] EXCEPT !.date = today]
          ELSE new[i] = old[i]
    /\ count = Cardinality({i \in 1..Len(old) : new[i].date # old[i].date})
    /\ count > 0 => FileLists(g, new)
    /\ count = 0 => g = f

C3_Rollover ==
    [][pc[1] = "fn_carry" =>
          RolloverContract(tasks[1], tasks'[1], moved'[1], file, file',
                           <<2024, 2, 29>>)]_vars

\* rollover ran on three tasks: one moved, a completed overdue one and one
\* due later stayed
C3_Witness ==
    /\ pc[1] = "fn_done" /\ last.op = "carry"
    /\ moved[1] = 1
    /\ \E i, j, k \in 1..Len(tasks[1]) :
          /\ tasks[1][i].date = <<2024, 2, 29>> /\ last.arg[i].date = <<2024, 2, 20>>
          /\ tasks[1][j].done /\ tasks[1][j].date = <<2024, 2, 20>>
          /\ tasks[1][k].date = <<2024, 3, 1>>
    /\ FileLists(file, tasks[1])

(***************************************************************************)
(* C4: load_tasks never raises, whatever the file holds, and every task it *)
(* returns has a valid calendar date and a priority among P0 .. P3.        *)
(***************************************************************************)
C4_LoadNeverFails ==
    /\ pc[1] # "fn_raised"
    /\ (pc[1] = "fn_done" /\ last.op = "load") =>
          \A i \in 1..Len(tasks[1]) :
              /\ IsCalendarDate(tasks[1][i].date)
              /\ tasks[1][i].priority \in {<<80, 48>>, <<80, 49>>, <<80, 50>>, <<80, 51>>}

(***************************************************************************)
(* C5: delete_task(id) removes exactly the one task with that id, every    *)
(* other task stays as it was and the file afterwards holds the remainder; *)
(* when no task has that id, collection and file are left unchanged.       *)
(***************************************************************************)
C5_DeleteExactlyOne ==
    [][\A s \in Sessions :
          (pc[s] = "widgets" /\ last'.s = s /\ last'.op = "delete") =>
              IF \E i \in 1..Len(tasks[s]) : tasks[s][i].id = last'.id
              THEN /\ \E i \in 1..Len(tasks[s]) :
                         /\ tasks[s][i].id = last'.id
                         /\ tasks'[s] = RemoveAt(tasks[s], i)
                   /\ FileLists(file', tasks'[s])
              ELSE tasks'[s] = tasks[s] /\ file' = file]_vars

(***************************************************************************)
(* C6: load_tasks after save_tasks(tasks) returns the same tasks, with the *)
(* same id, title, date, priority, notes and done, for every well-formed   *)
(* collection.  C6_RoundTrip states it for every collection whose tasks    *)
(* have an id, a title that is not empty and an ISO 8601 date;             *)
(* C6_RoundTripCanonical for those whose titles and notes carry no         *)
(* surrounding blanks and whose dates are written YYYY-MM-DD.              *)
(***************************************************************************)
NoBlankEnds(s) == s = <<>> \/ (s[1] # 32 /\ s[Len(s)] # 32)

Canonical(ts) ==
    \A i \in 1..Len(ts) :
        /\ ts[i].title # <<>>
        /\ NoBlankEnds(ts[i].title)
        /\ NoBlankEnds(ts[i].notes)
        /\ IsCalendarDate(ts[i].date)

C6_RoundTrip ==
    [][(pc[1] = "fn_load" /\ last.op = "save") =>
          (pc'[1] = "fn_done" /\ tasks'[1] = tasks[1])]_vars

C6_RoundTripCanonical ==
    [][(pc[1] = "fn_load" /\ last.op = "save" /\ Canonical(tasks[1])) =>
          (pc'[1] = "fn_done" /\ tasks'[1] = tasks[1])]_vars

\* two canonical tasks, one with notes and one completed, came back the same
C6_Witness ==
    /\ pc[1] = "fn_done" /\ last.op = "load"
    /\ Len(last.arg) = 2 /\ Canonical(last.arg)
    /\ \E i, j \in 1..2 : last.arg[i].notes # <<>> /\ last.arg[j].done
    /\ file.k = "array" /\ Len(file.items) = 2
    /\ tasks[1] = last.arg

(***************************************************************************)
(* C7: two sessions share the file and nothing detects a conflict: every   *)
(* save leaves in the file the saving session's own collection, so a task  *)
(* the other session holds and the saving session lacks is absent from the *)
(* file afterwards.                                                        *)
(***************************************************************************)
C7_LastSaveWins ==
    \A a, b \in Sessions :
        (a # b /\ Flushed(b)) =>
            /\ FileHolds(file, tasks[b])
            /\ \A i \in 1..Len(tasks[a]) :
                  (\A j \in 1..Len(tasks[b]) : tasks[b][j].id # tasks[a][i].id)
                      => tasks[a][i].id \notin FileIds(file)

\* session 1 added a task (its add saved it); session 2, loaded before,
\* then saved its own collection: the file has lost session 1's task
C7_Witness ==
    /\ Flushed(2) /\ loaded[1] /\ loaded[2]
    /\ \E i \in 1..Len(tasks[1]) :
          /\ tasks[1][i].id[1] = 117
          /\ \A j \in 1..Len(tasks[2]) : tasks[2][j].id # tasks[1][i].id
          /\ tasks[1][i].id \notin FileIds(file)
    /\ Len(tasks[2]) > 0

(***************************************************************************)
(* C8: the order of the tasks in the file.  C8_InsertionOrder states that  *)
(* tasks appear in the file in the order they were added (ids drawn by     *)
(* uuid4 are numbered in the order of their creation).  C8_FileOrder       *)
(* states what holds instead: a save writes the session's collection in    *)
(* its order of the moment, which is the order by date, priority and       *)
(* lower-cased title of the run's sort, with a task just added at the end. *)
(***************************************************************************)
Digit(p) == p[2] - 48

\* lower-casing of the letters A-Z, and dictionary order of the results
Fold(c) == IF c \in 65..90 THEN c + 32 ELSE c

Before(x, y) ==
    \E k \in 1..(Len(y)) :
        /\ \A h \in 1..(k - 1) : h <= Len(x) /\ Fold(x[h]) = Fold(y[h])
        /\ k > Len(x) \/ (k <= Len(x) /\ Fold(x[k]) < Fold(y[k]))

SameFolded(x, y) ==
    Len(x) = Len(y) /\ \A h \in 1..Len(x) : Fold(x[h]) = Fold(y[h])

\* a comes strictly before b by date, then priority, then title
DisplayBefore(a, b) ==
    \/ Earlier(a.date, b.date)
    \/ a.date = b.date /\ Digit(a.priority) < Digit(b.priority)
    \/ /\ a.date = b.date /\ Digit(a.priority) = Digit(b.priority)
       /\ Before(a.title, b.title)

SameDisplayKey(a, b) ==
    /\ a.date = b.date /\ Digit(a.priority) = Digit(b.priority)
    /\ SameFolded(a.title, b.title)

InDisplayOrder(ts) ==
    \A i, j \in 1..Len(ts) : i < j => ~DisplayBefore(ts[j], ts[i])

C8_InsertionOrder ==
    \A i, j \in 1..Len(file.items) :
        (/\ i < j
         /\ Len(file.items[i].id.s) = 2 /\ file.items[i].id.s[1] = 117
         /\ Len(file.items[j].id.s) = 2 /\ file.items[j].id.s[1] = 117)
            => file.items[i].id.s[2] < file.items[j].id.s[2]

C8_FileOrder ==
    \A s \in Sessions :
        /\ (last.s = s /\ last.op \in {"add", "toggle", "delete", "clear"})
              => FileLists(file, tasks[s])
        /\ (last.s = s /\ last.op \in {"toggle", "delete", "clear"})
              => InDisplayOrder(tasks[s])
        /\ (last.s = s /\ last.op = "add")
              => InDisplayOrder(SubSeq(tasks[s], 1, Len(tasks[s]) - 1))

\* a toggle saved two added tasks with the later-added one first
C8_Witness ==
    /\ last.op = "toggle" /\ FileLists(file, tasks[1])
    /\ \E i, j \in 1..Len(file.items) :
          /\ i < j
          /\ file.items[i].id.s[1] = 117 /\ file.items[j].id.s[1] = 117
          /\ file.items[i].id.s[2] > file.items[j].id.s[2]

(***************************************************************************)
(* C9: the reload button leaves the session's collection holding the same  *)
(* tasks, with the same ids and field values, as before it was pressed.    *)
(***************************************************************************)
C9_ReloadChangesNothing ==
    [][\A s \in Sessions :
          (pc[s] = "widgets" /\ last'.s = s /\ last'.op = "reload") =>
              SameTasks(tasks'[s], tasks[s])]_vars

(***************************************************************************)
(* C10: sort_tasks returns a permutation of its argument in ascending      *)
(* order of date, then priority (P0 first), then lower-cased title, tasks  *)
(* equal in all three in the order of the argument; and every view lists   *)
(* the tasks of a day in that same order.                                  *)
(***************************************************************************)
Pos(ts, id) == CHOOSE k \in 1..Len(ts) : ts[k].id = id

IsStableSortOf(out, in) ==
    /\ SameTasks(out, in)
    /\ InDisplayOrder(out)
    /\ \A i, j \in 1..Len(out) :
          (i < j /\ SameDisplayKey(out[i], out[j]))
              => Pos(in, out[i].id) < Pos(in, out[j].id)

\* the rows are distinct tasks of ts, in the order they have in ts
ListedInOrderOf(rows, ts) ==
    /\ \A i \in 1..Len(rows) : \E k \in 1..Len(ts) : ts[k] = rows[i]
    /\ \A i, j \in 1..Len(rows) :
          i < j => Pos(ts, rows[i].id) < Pos(ts, rows[j].id)

Overdue(t, day) == ~t.done /\ Earlier(t.date, IsoFormat(day))

C11_RolloverBeforeRender ==
    \A s \in Sessions :
        (last.s = s /\ last.op = "render") =>
            \A i \in 1..Len(tasks[s]) : ~Overdue(tasks[s][i], run_today[s])

\* rendered on 2024-02-29: a task added with the due date 2024-02-20 and
\* the task "b" of the file, completed on 2024-02-20 and then un-completed,
\* both dated 2024-02-29 now
C11_Witness ==
    /\ last.s = 1 /\ last.op = "render" /\ run_today[1] = StartDay
    /\ \E i, j \in 1..Len(tasks[1]) :
          /\ tasks[1][i].id = <<117, 1>> /\ ~tasks[1][i].done
          /\ tasks[1][i].date = <<2024, 2, 29>>
          /\ tasks[1][j].id = <<98>> /\ ~tasks[1][j].done
          /\ tasks[1][j].date = <<2024, 2, 29>>

====
